---- MODULE Spec2Model ----
(***************************************************************************)
(* genn.py: records about papers (from a CSV file or from --entries) are   *)
(* grouped by topic, rendered as Markdown tables and spliced into a README *)
(* after the marker token.                                                 *)
(*                                                                         *)
(* Text is a sequence of symbols.  A symbol is one character ("\n", "\r",  *)
(* "/", ";", " ", a letter) or a literal chunk of the program's or the     *)
(* user's text that no operation of the program looks inside (the table    *)
(* header line, "github.com", "https://").  Python's None is the value     *)
(* PyNone; str(None) is the text "None".                                   *)
(***************************************************************************)
EXTENDS Integers, Sequences, FiniteSets, TLC

\* ------------------------------------------------------------------ bounds
MaxReadme == 4
MaxEntries == 3
MaxRows == 2
MaxRuns == 2

\* ------------------------------------------------- Python values and text
PyNone == <<"<None>">>

\* `if v:` for a value that is None or text
Truthy(v) == v # PyNone /\ v # <<>>

\* how an f-string shows a value
Fmt(v) == IF v = PyNone THEN <<"None">> ELSE v

Whitespace == {" ", "\t", "\n", "\r"}

MatchAt(s, t, i) ==
    /\ i + Len(t) - 1 <= Len(s)
    /\ SubSeq(s, i, i + Len(t) - 1) = t

\* str.find, 1-based; 0 when t does not occur in s
Find(s, t) ==
    LET hits == {i \in 1..(Len(s) - Len(t) + 1) : MatchAt(s, t, i)}
    IN  IF hits = {} THEN 0 ELSE CHOOSE i \in hits : \A j \in hits : i <= j

\* `t in s`
Contains(s, t) == Find(s, t) # 0

\* s.split(t, 1)
SplitOnce(s, t) ==
    LET i == Find(s, t)
    IN  IF i = 0 THEN <<s>>
        ELSE <<SubSeq(s, 1, i - 1), SubSeq(s, i + Len(t), Len(s))>>

RECURSIVE Split(_, _)
\* s.split(t)
Split(s, t) ==
    LET i == Find(s, t)
    IN  IF i = 0 THEN <<s>>
        ELSE <<SubSeq(s, 1, i - 1)>> \o Split(SubSeq(s, i + Len(t), Len(s)), t)

RECURSIVE Replace(_, _, _)
\* s.replace(old, new)
Replace(s, old, new) ==
    LET i == Find(s, old)
    IN  IF i = 0 THEN s
        ELSE SubSeq(s, 1, i - 1) \o new
                 \o Replace(SubSeq(s, i + Len(old), Len(s)), old, new)

RECURSIVE RStrip(_, _)
\* s.rstrip(chars)
RStrip(s, chars) ==
    IF s # <<>> /\ s[Len(s)] \in chars
    THEN RStrip(SubSeq(s, 1, Len(s) - 1), chars)
    ELSE s

RECURSIVE LStrip(_, _)
LStrip(s, chars) ==
    IF s # <<>> /\ Head(s) \in chars THEN LStrip(Tail(s), chars) ELSE s

\* s.strip()
Strip(s) == RStrip(LStrip(s, Whitespace), Whitespace)

\* What file.read() makes of the i-th symbol of a file opened in text mode
\* with the default newline=None: "\r\n" and a lone "\r" both become "\n".
ReadSymbol(s, i) ==
    IF s[i] = "\r" THEN <<"\n">>
    ELSE IF s[i] = "\n" /\ i > 1 /\ s[i - 1] = "\r" THEN <<>>
    ELSE <<s[i]>>

RECURSIVE ReadRange(_, _, _)
ReadRange(s, lo, hi) ==
    IF lo > hi THEN <<>>
    ELSE IF lo = hi THEN ReadSymbol(s, lo)
    ELSE ReadRange(s, lo, (lo + hi) \div 2) \o ReadRange(s, (lo + hi) \div 2 + 1, hi)

UniversalNewlines(s) == ReadRange(s, 1, Len(s))

\* What file.write() stores for the i-th symbol in a file opened in text mode
\* with the default newline=None: every "\n" becomes os.linesep.
WriteSymbol(s, i, sep) == IF s[i] = "\n" THEN sep ELSE <<s[i]>>

RECURSIVE WriteRange(_, _, _, _)
WriteRange(s, lo, hi, sep) ==
    IF lo > hi THEN <<>>
    ELSE IF lo = hi THEN WriteSymbol(s, lo, sep)
    ELSE WriteRange(s, lo, (lo + hi) \div 2, sep)
             \o WriteRange(s, (lo + hi) \div 2 + 1, hi, sep)

WriteNewlines(s, sep) == WriteRange(s, 1, Len(s), sep)

\* os.linesep of the platforms CPython runs on
LineSeps == {<<"\n">>, <<"\r", "\n">>}

\* ------------------------------------------------------------- dictionaries
\* A dict (insertion-ordered) from topic to list: a sequence of
\* [topic, entries], one per key, in order of first insertion.
Keys(d) == {d[i].topic : i \in 1..Len(d)}

\* d[key].append(value) on a defaultdict(list)
DictAppend(d, key, value) ==
    IF key \in Keys(d)
    THEN [i \in 1..Len(d) |->
             IF d[i].topic = key
             THEN [d[i] EXCEPT !.entries = Append(@, value)]
             ELSE d[i]]
    ELSE Append(d, [topic |-> key, entries |-> <<value>>])

\* entry.get(key, default)
Get(entry, key, default) == IF key \in DOMAIN entry THEN entry[key] ELSE default

Range(f) == {f[i] : i \in DOMAIN f}

Diag(msg, arg) == [msg |-> msg, arg |-> arg]

\* ------------------------------------------------------- load_data_from_csv
\* The CSV file as csv.reader parses it: `header` is its first row (<<>> for
\* an empty file, where DictReader.fieldnames is None), `rows` the cells of
\* the rows after it.
IndexOf(header, col) == CHOOSE i \in 1..Len(header) : header[i] = col

\* One row of csv.DictReader: a missing cell is None (restval); cells beyond
\* the header go under the key None, which no code reads.
DictRow(header, cells) ==
    [col \in Range(header) |->
        IF IndexOf(header, col) <= Len(cells)
        THEN cells[IndexOf(header, col)]
        ELSE PyNone]

RECURSIVE GroupRows(_, _, _)
GroupRows(header, rows, d) ==
    IF rows = <<>> THEN d
    ELSE LET row == DictRow(header, Head(rows))
         IN  GroupRows(header, Tail(rows), DictAppend(d, row["topic"], row))

\* as if lines 19-20 were missing: row['topic'] then raises KeyError at the
\* first row
load_data_from_csv_unchecked(file) ==
    IF ~file.exists
    THEN [err |-> "FileNotFoundError", data |-> <<>>, out |-> <<>>]
    ELSE LET out == <<Diag("Detected column names", <<>>)>>
         IN  IF "topic" \notin Range(file.header)
             THEN [err |-> IF file.rows = <<>> THEN "" ELSE "KeyError",
                   data |-> <<>>, out |-> out]
             ELSE [err |-> "",
                   data |-> GroupRows(file.header, file.rows, <<>>),
                   out |-> out]

load_data_from_csv(file) ==
    IF ~file.exists
    THEN [err |-> "FileNotFoundError", data |-> <<>>, out |-> <<>>]
    ELSE LET out == <<Diag("Detected column names", <<>>)>>
         IN  IF file.header = <<>>
             THEN [err |-> "TypeError", data |-> <<>>, out |-> out]
             ELSE IF "topic" \notin Range(file.header)
             THEN [err |-> "ValueError", data |-> <<>>, out |-> out]
             ELSE [err |-> "",
                   data |-> GroupRows(file.header, file.rows, <<>>),
                   out |-> out]

\* ------------------------------------------------------ collect_manual_data
ManualKeys == {"title", "authors", "code", "arxiv page", "project page", "summary"}

\* lines 44-52: parts is topic, title, authors, code, arxiv_page,
\* project_page, summary
ManualEntry(parts) ==
    [k \in ManualKeys |->
        CASE k = "title" -> Strip(parts[2])
          [] k = "authors" -> Strip(parts[3])
          [] k = "code" -> Strip(parts[4])
          [] k = "arxiv page" -> Strip(parts[5])
          [] k = "project page" -> Strip(parts[6])
          [] k = "summary" -> Strip(parts[7])]

\* as if line 43 accepted every entry with at least 7 fields
WellFormed_AtLeast(parts) == Len(parts) >= 7

\* line 43
WellFormed(parts) == Len(parts) = 7

RECURSIVE CollectFrom(_, _, _)
CollectFrom(entries, d, out) ==
    IF entries = <<>> THEN [err |-> "", data |-> d, out |-> out]
    ELSE LET entry == Head(entries)
             parts == Split(entry, <<";">>)
         IN  IF WellFormed(parts)
             THEN CollectFrom(Tail(entries),
                              DictAppend(d, parts[1], ManualEntry(parts)), out)
             ELSE CollectFrom(Tail(entries), d,
                              Append(out, Diag("Skipping malformed entry", entry)))

collect_manual_data(entries) == CollectFrom(entries, <<>>, <<>>)

\* ------------------------------------------------------------------ badges
GitHubPrefix == <<"https://", "github.com", "/">>

\* line 68: the text put after .../github/stars/
repo_name(code_url) == Replace(RStrip(code_url, {"/"}), GitHubPrefix, <<>>)

generate_code_badge(code_url) ==
    IF Contains(code_url, <<"github.com">>)
    THEN <<"[![GitHub](https://img.shields.io/github/stars/">>
             \o repo_name(code_url) \o <<"?style=social)](">> \o code_url \o <<")">>
    ELSE <<>>

generate_arxiv_badge(arxiv_url) ==
    IF Contains(arxiv_url, <<"arxiv.org">>) \/ Contains(arxiv_url, <<"ar5iv.labs">>)
    THEN LET parts == Split(arxiv_url, <<"/">>)
             arxiv_id == parts[Len(parts)]
         IN  <<"[![arXiv](https://img.shields.io/badge/arXiv-">> \o arxiv_id
                 \o <<"-b31b1b.svg?style=for-the-badge)](">> \o arxiv_url \o <<")">>
    ELSE <<>>

\* ------------------------------------------------ generate_markdown_tables
TableHead ==
    <<"| Title | Authors | Code / arXiv Page | Summary |", "\n",
      "|:-------------------|:-------------------|:-------------------:|:-------------------|", "\n">>

\* The exception one pass of the loop body raises, "" when none: entry['code']
\* and `'github.com' in None` (line 99), `'arxiv.org' in None` (line 100),
\* entry['title'] (line 107), entry['authors'] (line 111).
EntryError(entry) ==
    IF "code" \notin DOMAIN entry THEN "KeyError"
    ELSE IF entry["code"] = PyNone THEN "TypeError"
    ELSE IF Get(entry, "arxiv page", <<>>) = PyNone THEN "TypeError"
    ELSE IF "title" \notin DOMAIN entry THEN "KeyError"
    ELSE IF "authors" \notin DOMAIN entry THEN "KeyError"
    ELSE ""

code_arxiv_combined(entry) ==
    Strip(generate_code_badge(entry["code"]) \o <<" ">>
              \o generate_arxiv_badge(Get(entry, "arxiv page", <<>>)))

TitleCell(entry) ==
    IF Truthy(Get(entry, "project page", PyNone))
    THEN <<"[">> \o Fmt(entry["title"]) \o <<"](">> \o entry["project page"] \o <<")">>
    ELSE Fmt(entry["title"])

\* line 111
TableRow(entry) ==
    <<"| ">> \o TitleCell(entry) \o <<" | ">> \o Fmt(entry["authors"]) \o <<" | ">>
        \o code_arxiv_combined(entry) \o <<" | ">>
        \o Fmt(Get(entry, "summary", <<>>)) \o <<" |", "\n">>

RECURSIVE TableOf(_, _)
\* lines 98-111: [err, table] for the entries of one topic
TableOf(entries, table) ==
    IF entries = <<>> THEN [err |-> "", table |-> table]
    ELSE IF EntryError(Head(entries)) # ""
         THEN [err |-> EntryError(Head(entries)), table |-> table]
         ELSE TableOf(Tail(entries), table \o TableRow(Head(entries)))

RECURSIVE TablesFrom(_, _)
TablesFrom(d, tables) ==
    IF d = <<>> THEN [err |-> "", tables |-> tables]
    ELSE LET t == TableOf(Head(d).entries, TableHead)
         IN  IF t.err # "" THEN [err |-> t.err, tables |-> <<>>]
             ELSE TablesFrom(Tail(d),
                      Append(tables, [topic |-> Head(d).topic, table |-> t.table]))

generate_markdown_tables(d) == TablesFrom(d, <<>>)

\* ----------------------------------------------- update_readme_with_tables
token == <<"<!-- TABLES_START ", "-->">>

RECURSIVE new_content(_)
\* lines 123-125
new_content(tables) ==
    IF tables = <<>> THEN <<>>
    ELSE <<"\n", "## ">> \o Fmt(Head(tables).topic) \o <<"\n">>
             \o Head(tables).table \o <<"\n">> \o new_content(Tail(tables))

\* str.rfind, 1-based
FindLast(s, t) ==
    LET hits == {i \in 1..(Len(s) - Len(t) + 1) : MatchAt(s, t, i)}
    IN  IF hits = {} THEN 0 ELSE CHOOSE i \in hits : \A j \in hits : i >= j

\* as if line 133 split at the last occurrence of the token (rsplit)
updated_content_last(content, new) ==
    IF Contains(content, token)
    THEN SubSeq(content, 1, FindLast(content, token) - 1)
             \o token \o new
    ELSE content \o <<"\n">> \o token \o new

\* as if the tables were appended whether or not the token is there
updated_content_append(content, new) == content \o <<"\n">> \o token \o new

\* lines 132-137
updated_content(content, new) ==
    IF Contains(content, token)
    THEN SplitOnce(content, token)[1] \o token \o new
    ELSE content \o <<"\n">> \o token \o new

\* as if line 136 were missing
TokenDiagnostic_silent(content) == <<>>

\* line 136
TokenDiagnostic(content) ==
    IF Contains(content, token) THEN <<>>
    ELSE <<Diag("Token not found. Appending tables at the end.", token)>>

\* A lone surrogate, which is how sys.argv holds a byte of the command line
\* that is not UTF-8; file.write raises UnicodeEncodeError for it.
Surrogate == "U+DCFF"

Encodable(text) == Surrogate \notin Range(text)

\* A file is [exists, text]; `linesep` is os.linesep.  `writes` counts the
\* times the file was opened for writing, which empties it (line 140).
update_readme_with_tables(tables, file, linesep) ==
    IF ~file.exists
    THEN [err |-> "FileNotFoundError", file |-> file, out |-> <<>>, writes |-> 0]
    ELSE LET content == UniversalNewlines(file.text)
             updated == updated_content(content, new_content(tables))
         IN  IF Encodable(updated)
             THEN [err |-> "",
                   file |-> [exists |-> TRUE, text |-> WriteNewlines(updated, linesep)],
                   out |-> TokenDiagnostic(content)
                               \o <<Diag("README has been updated with new tables", <<>>)>>,
                   writes |-> 1]
             ELSE [err |-> "UnicodeEncodeError",
                   file |-> [exists |-> TRUE, text |-> <<>>],
                   out |-> TokenDiagnostic(content),
                   writes |-> 1]

\* ------------------------------------------------------------------ inputs
RECURSIVE Join(_, _)
\* sep.join(parts)
Join(parts, sep) ==
    IF Len(parts) = 0 THEN <<>>
    ELSE IF Len(parts) = 1 THEN parts[1]
    ELSE parts[1] \o sep \o Join(Tail(parts), sep)

SeqsUpTo(S, n) == UNION {[1..k -> S] : k \in 0..n}

GitHubUrl == <<"https://", "github.com", "/", "org", "/", "repo">>
GitHubUrlSlash == GitHubUrl \o <<"/">>
GitHubHttpUrl == <<"http://", "github.com", "/", "org", "/", "repo">>
GitLabUrl == <<"https://", "gitlab.com", "/", "org", "/", "repo">>
ArxivUrl == <<"https://", "arxiv.org", "/", "abs", "/", "2403.12345">>
ProjectUrl == <<"https://", "example.org", "/", "p">>

\* --entries values
EntryPool ==
    { Join(<< <<"A">>, <<"t1">>, <<"u">>, GitHubUrlSlash, ArxivUrl, ProjectUrl, <<"s">> >>, <<";">>),
      Join(<< <<"B">>, <<" ", "t2", " ">>, <<"u">>, <<>>, <<>>, <<>>, <<>> >>, <<";">>),
      Join(<< <<" ", "A">>, <<"t3">>, <<"u">>, GitHubHttpUrl, <<>>, <<>>, <<"s">> >>, <<";">>),
      Join(<< <<"A">>, <<"t4">>, <<"u">> >>, <<";">>),
      Join(<< <<"B">>, <<"t8">>, <<"u">>, GitLabUrl, <<>>, <<>>, <<"s">> >>, <<";">>),
      Join(<< <<"B">>, <<"t5">>, <<"u">>, <<>>, <<>>, <<>>, <<"s">>, <<"x">> >>, <<";">>),
      <<>> }

EntryLists == SeqsUpTo(EntryPool, MaxEntries) \ {<<>>}

GoodEntry == Join(<< <<"A">>, <<"t1">>, <<"u">>, GitHubUrlSlash, ArxivUrl, ProjectUrl, <<"s">> >>, <<";">>)
OtherEntry == Join(<< <<"B">>, <<"t2">>, <<"u">>, <<>>, <<>>, <<>>, <<>> >>, <<";">>)
BadEntry == Join(<< <<"A">>, <<"t4">>, <<"u">> >>, <<";">>)
\* an entry whose topic holds a carriage return and the marker itself
\* an entry whose title holds a byte that is not UTF-8
SurrogateEntry ==
    Join(<< <<"A">>, <<"t7", Surrogate>>, <<"u">>, <<>>, <<>>, <<>>, <<"s">> >>, <<";">>)
MarkerEntry ==
    Join(<< <<"\r", "<!-- TABLES_START ", "-->">>, <<"t6">>, <<"u">>, <<>>, <<>>, <<>>, <<"s">> >>, <<";">>)

Columns == <<"topic", "title", "authors", "code", "arxiv page", "project page", "summary">>

\* the cell of column `col` in the k-th kind of CSV row
Cell(col, k) ==
    CASE col = "topic" -> IF k = 2 THEN <<"B">> ELSE <<"A">>
      [] col = "title" -> <<"t">>
      [] col = "authors" -> <<"u">>
      [] col = "code" -> IF k = 1 THEN GitHubUrlSlash
                          ELSE IF k = 2 THEN GitHubHttpUrl ELSE <<>>
      [] col = "arxiv page" -> IF k = 1 THEN ArxivUrl ELSE <<>>
      [] col = "project page" -> IF k = 1 THEN ProjectUrl ELSE <<>>
      [] col = "summary" -> <<"s">>

RowKinds == 1..3

\* every header: the columns of a subset, in the order of Columns
Headers == {SelectSeq(Columns, LAMBDA c : c \in S) : S \in SUBSET Range(Columns)}

\* a row of a CSV with this header: full, or one cell short
RowsOf(header) ==
    {[i \in 1..n |-> Cell(header[i], k)] :
        k \in RowKinds, n \in {m \in {Len(header) - 1, Len(header)} : m >= 1}}

CsvFiles ==
    {[exists |-> FALSE, header |-> <<>>, rows |-> <<>>]}
        \cup UNION {{[exists |-> TRUE, header |-> h, rows |-> r] :
                        r \in SeqsUpTo(RowsOf(h), MaxRows)} : h \in Headers}

FullCsv ==
    [exists |-> TRUE, header |-> Columns,
     rows |-> << [i \in 1..7 |-> Cell(Columns[i], 1)],
                 [i \in 1..7 |-> Cell(Columns[i], 2)] >>]

NoTopicCsv ==
    [exists |-> TRUE, header |-> Tail(Columns),
     rows |-> << [i \in 1..6 |-> Cell(Tail(Columns)[i], 1)] >>]

ReadmeChars == {"<!-- TABLES_START ", "-->", "\r", "\n", "a"}

ReadmeFiles ==
    {[exists |-> FALSE, text |-> <<>>]}
        \cup {[exists |-> TRUE, text |-> t] : t \in SeqsUpTo(ReadmeChars, MaxReadme)}

MarkedReadme == [exists |-> TRUE, text |-> <<"a", "\n">> \o token \o <<"a">>]
PlainReadme == [exists |-> TRUE, text |-> <<"a", "\n">>]

\* ------------------------------------------------------------------- state
VARIABLES
    args,       \* argparse's result: csv (None, or the path) and entries
    csvFile,    \* the file at args.csv
    readme,     \* the file at args.output
    linesep,    \* os.linesep
    pc,         \* where main is: start, loaded, rendered, done, aborted
    source,     \* the branch main took at lines 155-160
    data,       \* main's `data`
    tables,     \* main's `tables`
    out,        \* what was printed
    err,        \* the exception that ended the run, "" when none
    writes,     \* how many times this run has written the README
    runs,       \* which run this is
    readme0,    \* the README when this run started
    prev        \* the README when the previous run started

vars == <<args, csvFile, readme, linesep, pc, source, data, tables, out, err,
          writes, runs, readme0, prev>>

Fresh ==
    /\ pc = "start"
    /\ source = ""
    /\ data = <<>>
    /\ tables = <<>>
    /\ out = <<>>
    /\ err = ""
    /\ writes = 0
    /\ runs = 1
    /\ readme0 = readme
    /\ prev = readme

\* CSV runs: every CSV file, one README
InitCsv ==
    /\ args = [csv |-> <<"data.csv">>, entries |-> <<>>]
    /\ csvFile \in CsvFiles
    /\ readme = MarkedReadme
    /\ linesep = <<"\n">>
    /\ Fresh

\* --entries runs: every list of entries, one README
InitManual ==
    /\ args \in {[csv |-> PyNone, entries |-> e] : e \in EntryLists}
    /\ csvFile = FullCsv
    /\ readme = MarkedReadme
    /\ linesep = <<"\n">>
    /\ Fresh

\* every combination of the flags
InitArgs ==
    /\ args \in {[csv |-> c, entries |-> e] :
                    c \in {PyNone, <<>>, <<"data.csv">>},
                    e \in {<<>>, <<GoodEntry>>}}
    /\ csvFile \in {FullCsv, NoTopicCsv}
    /\ readme \in {MarkedReadme, PlainReadme}
    /\ linesep = <<"\n">>
    /\ Fresh

\* every README and platform, a few inputs
InitReadme ==
    /\ args \in {[csv |-> PyNone, entries |-> e] :
                    e \in {<<GoodEntry>>, <<OtherEntry, GoodEntry>>, <<BadEntry>>,
                           <<MarkerEntry>>, <<SurrogateEntry>>}}
    /\ csvFile = FullCsv
    /\ readme \in ReadmeFiles
    /\ linesep \in LineSeps
    /\ Fresh

Init == InitCsv \/ InitManual \/ InitArgs \/ InitReadme

\* -------------------------------------------------------------------- main
Abort(e) ==
    /\ err' = e
    /\ pc' = "aborted"

\* as if line 155 read `if args.csv is not None:`
UseCsv_NotNone(a) == a.csv # PyNone

\* line 155: `if args.csv:`
UseCsv(a) == Truthy(a.csv)

\* line 157: `elif args.entries:`; argparse gives None without the flag and
\* a list of at least one entry with it (nargs='+'): <<>> is None here
UseEntries(a) == ~UseCsv(a) /\ a.entries # <<>>

\* lines 155-156
LoadCsv ==
    /\ pc = "start"
    /\ UseCsv(args)
    /\ LET r == load_data_from_csv(csvFile)
       IN  /\ data' = r.data
           /\ out' = out \o r.out
           /\ err' = r.err
           /\ pc' = IF r.err = "" THEN "loaded" ELSE "aborted"
    /\ source' = "csv"
    /\ UNCHANGED <<args, csvFile, readme, linesep, tables, writes, runs, readme0, prev>>

\* lines 157-158
CollectManual ==
    /\ pc = "start"
    /\ UseEntries(args)
    /\ LET r == collect_manual_data(args.entries)
       IN  /\ data' = r.data
           /\ out' = out \o r.out
           /\ err' = r.err
           /\ pc' = IF r.err = "" THEN "loaded" ELSE "aborted"
    /\ source' = "entries"
    /\ UNCHANGED <<args, csvFile, readme, linesep, tables, writes, runs, readme0, prev>>

\* lines 159-160
NoInput ==
    /\ pc = "start"
    /\ ~UseCsv(args)
    /\ ~UseEntries(args)
    /\ Abort("ValueError")
    /\ UNCHANGED <<args, csvFile, readme, linesep, source, data, tables, out,
                   writes, runs, readme0, prev>>

\* as if main had opened the output file for writing before rendering
Render_OutputOpened ==
    /\ pc = "loaded"
    /\ LET r == generate_markdown_tables(data)
       IN  /\ tables' = r.tables
           /\ err' = r.err
           /\ pc' = IF r.err = "" THEN "rendered" ELSE "aborted"
    /\ readme' = [exists |-> TRUE, text |-> <<>>]
    /\ writes' = writes + 1
    /\ UNCHANGED <<args, csvFile, linesep, source, data, out, runs, readme0, prev>>

\* line 162
Render ==
    /\ pc = "loaded"
    /\ LET r == generate_markdown_tables(data)
       IN  /\ tables' = r.tables
           /\ err' = r.err
           /\ pc' = IF r.err = "" THEN "rendered" ELSE "aborted"
    /\ UNCHANGED <<args, csvFile, readme, linesep, source, data, out, writes,
                   runs, readme0, prev>>

\* lines 163-165
Patch ==
    /\ pc = "rendered"
    /\ LET r == update_readme_with_tables(tables, readme, linesep)
       IN  /\ readme' = r.file
           /\ writes' = writes + r.writes
           /\ err' = r.err
           /\ out' = out \o r.out \o
                  (IF r.err = "" THEN <<Diag("Markdown tables have been written", <<>>)>>
                   ELSE <<>>)
           /\ pc' = IF r.err = "" THEN "done" ELSE "aborted"
    /\ UNCHANGED <<args, csvFile, linesep, source, data, tables, runs, readme0, prev>>

\* the same command line is run again
Rerun ==
    /\ pc \in {"done", "aborted"}
    /\ runs < MaxRuns
    /\ pc' = "start"
    /\ source' = ""
    /\ data' = <<>>
    /\ tables' = <<>>
    /\ out' = <<>>
    /\ err' = ""
    /\ writes' = 0
    /\ runs' = runs + 1
    /\ readme0' = readme
    /\ prev' = readme0
    /\ UNCHANGED <<args, csvFile, readme, linesep>>

Next == LoadCsv \/ CollectManual \/ NoInput \/ Render \/ Patch \/ Rerun

Spec == Init /\ [][Next]_vars

\* ================================================================== claims
\* The marker, read off the text position by position.
MarkerAt(s, i) ==
    \A j \in 1..Len(token) : i + j - 1 <= Len(s) /\ s[i + j - 1] = token[j]

HasMarker(s) == \E i \in 1..Len(s) : MarkerAt(s, i)

FirstMarker(s) ==
    CHOOSE i \in 1..Len(s) : MarkerAt(s, i) /\ \A j \in 1..(i - 1) : ~MarkerAt(s, j)

BeforeMarker(s) == SubSeq(s, 1, FirstMarker(s) - 1)

AfterMarker(s) == SubSeq(s, FirstMarker(s) + Len(token), Len(s))

MarkerCount(s) == Cardinality({i \in 1..Len(s) : MarkerAt(s, i)})

RECURSIVE Concat(_)
Concat(ss) == IF ss = <<>> THEN <<>> ELSE Head(ss) \o Concat(Tail(ss))

\* one `## topic` heading and its table
Section(t) == <<"\n", "## ">> \o Fmt(t.topic) \o <<"\n">> \o t.table \o <<"\n">>

Sections(ts) == Concat([i \in 1..Len(ts) |-> Section(ts[i])])

\* the text Python reads from the stored text, and stores for a written text
AsRead(s) == UniversalNewlines(s)
AsWritten(s) == WriteNewlines(s, linesep)

MissingTokenDiag == Diag("Token not found. Appending tables at the end.", token)

\* C1 as stated: when the README holds the marker, the patched file is the
\* text before the first marker, unchanged, then the marker, then one
\* section per topic in mapping order, and nothing else.
C1_PrefixUnchanged ==
    (pc = "done" /\ HasMarker(readme0.text))
        => readme.text = BeforeMarker(readme0.text) \o token \o Sections(tables)

\* C1, amended: when the README holds the marker, the patched file is the
\* text before the first marker with its line endings normalised ("\r\n" and
\* "\r" read as "\n"), then the marker, then one section per topic in mapping
\* order, every "\n" stored as the platform's line separator; nothing of the
\* old text after the first marker remains.
C1_SpliceAtMarker ==
    (pc = "done" /\ HasMarker(readme0.text))
        => readme.text =
               AsWritten(AsRead(BeforeMarker(readme0.text)) \o token \o Sections(tables))

\* C1's case: a README with text before the marker that holds a carriage
\* return, a second marker after the first, and a topic to render.
C1_Witness ==
    /\ pc = "done"
    /\ HasMarker(readme0.text)
    /\ "\r" \in Range(BeforeMarker(readme0.text))
    /\ AfterMarker(readme0.text) # <<>>
    /\ tables # <<>>

\* C1's case with the marker twice in the README.
C1_WitnessTwoMarkers ==
    /\ pc = "done"
    /\ runs = 1
    /\ MarkerCount(readme0.text) = 2
    /\ tables # <<>>

\* C2 as stated: when the README holds no marker, a diagnostic is printed and
\* the file is the original content, then the marker, then the sections.
C2_AppendedVerbatim ==
    (pc = "done" /\ ~HasMarker(readme0.text))
        => /\ MissingTokenDiag \in Range(out)
           /\ readme.text = readme0.text \o token \o Sections(tables)

\* C2, amended: when the README holds no marker, a diagnostic is printed and
\* the file is the original content with its line endings normalised, then a
\* newline, then the marker, then the sections, every "\n" stored as the
\* platform's line separator.
C2_AppendedAfterNewline ==
    (pc = "done" /\ ~HasMarker(readme0.text))
        => /\ MissingTokenDiag \in Range(out)
           /\ readme.text =
                  AsWritten(AsRead(readme0.text) \o <<"\n">> \o token \o Sections(tables))

\* C2's case: a README without the marker, not empty, patched with a topic.
C2_Witness ==
    /\ pc = "done"
    /\ ~HasMarker(readme0.text)
    /\ readme0.text # <<>>
    /\ tables # <<>>

\* C3: after a second run with the same input, what follows the first marker
\* is what followed it after the first run, and the file holds as many
\* markers as it did after the first run.
C3_Idempotent ==
    (runs >= 2 /\ pc = "done")
        => /\ HasMarker(readme0.text)
           /\ HasMarker(readme.text)
           /\ AfterMarker(readme.text) = AfterMarker(readme0.text)
           /\ MarkerCount(readme.text) = MarkerCount(readme0.text)

\* C3's case: the README had no marker before the first run; both runs wrote
\* a topic.
C3_Witness ==
    /\ runs = 2
    /\ pc = "done"
    /\ ~HasMarker(prev.text)
    /\ tables # <<>>

\* ------------------------------------------------------------ manual mode
\* The fields of an entry, read off the positions of its semicolons.
Semis(e) == {i \in 1..Len(e) : e[i] = ";"}

FieldCount(e) == Cardinality(Semis(e)) + 1

\* the position of the n-th semicolon of e
NthSemi(e, n) == CHOOSE i \in Semis(e) : Cardinality({j \in Semis(e) : j < i}) = n - 1

NthField(e, n) ==
    SubSeq(e,
           IF n = 1 THEN 1 ELSE NthSemi(e, n - 1) + 1,
           IF n = FieldCount(e) THEN Len(e) ELSE NthSemi(e, n) - 1)

SevenFields(e) == FieldCount(e) = 7

\* the record a 7-field entry stands for
RecordOf(e) ==
    [k \in ManualKeys |->
        Strip(NthField(e, CASE k = "title" -> 2 [] k = "authors" -> 3
                            [] k = "code" -> 4 [] k = "arxiv page" -> 5
                            [] k = "project page" -> 6 [] k = "summary" -> 7))]

\* the records of the 7-field entries whose topic is t, in input order
RecordsUnder(entries, t) ==
    LET mine == SelectSeq(entries, LAMBDA e : SevenFields(e) /\ NthField(e, 1) = t)
    IN  [i \in 1..Len(mine) |-> RecordOf(mine[i])]

SkipDiags(o) == SelectSeq(o, LAMBDA d : d.msg = "Skipping malformed entry")

NoTopicColumn == csvFile.exists /\ "topic" \notin Range(csvFile.header)

\* C6 as stated: a CSV without a `topic` column makes loading fail with
\* ConfigError; nothing is rendered and the README is not patched.
C6_ConfigError ==
    (source = "csv" /\ NoTopicColumn /\ csvFile.header # <<>>)
        => /\ pc = "aborted"
           /\ err = "ConfigError"
           /\ tables = <<>>
           /\ writes = 0

\* C6, amended: a CSV whose header row has no `topic` column makes loading
\* fail with ValueError (an empty CSV, which has no header row, with
\* TypeError); nothing is rendered and the README is not patched.
C6_ValueError ==
    (source = "csv" /\ NoTopicColumn)
        => /\ pc = "aborted"
           /\ err = (IF csvFile.header = <<>> THEN "TypeError" ELSE "ValueError")
           /\ tables = <<>>
           /\ writes = 0
           /\ readme = readme0

\* C6's case: a CSV with a header row without `topic`, and a row.
C6_Witness ==
    /\ source = "csv"
    /\ NoTopicColumn
    /\ csvFile.header # <<>>
    /\ csvFile.rows # <<>>
    /\ pc = "aborted"

\* the rows of the CSV as dicts, and their topics in order of first appearance
CsvDicts == [i \in 1..Len(csvFile.rows) |-> DictRow(csvFile.header, csvFile.rows[i])]

RECURSIVE FirstAppearances(_, _)
FirstAppearances(rows, seen) ==
    IF rows = <<>> THEN <<>>
    ELSE IF Head(rows)["topic"] \in seen THEN FirstAppearances(Tail(rows), seen)
    ELSE <<Head(rows)["topic"]>>
             \o FirstAppearances(Tail(rows), seen \cup {Head(rows)["topic"]})

\* the table the claim describes for topic t: the header and one row per CSV
\* row of that topic, in input order
TableFor(t) ==
    LET mine == SelectSeq(CsvDicts, LAMBDA r : r["topic"] = t)
    IN  TableHead \o Concat([i \in 1..Len(mine) |-> TableRow(mine[i])])

\* C4: a CSV with a `topic` column is rendered: there is one section per
\* distinct topic, in order of first appearance, and the table of each holds
\* one row per CSV row of that topic, in input order.
C4_CsvSections ==
    (source = "csv" /\ csvFile.exists /\ "topic" \in Range(csvFile.header))
        => /\ pc = "aborted" => ~readme0.exists
           /\ pc \in {"rendered", "done"}
                  => LET topics == FirstAppearances(CsvDicts, {})
                     IN  /\ Len(tables) = Len(topics)
                         /\ \A i \in 1..Len(tables) :
                                /\ tables[i].topic = topics[i]
                                /\ tables[i].table = TableFor(topics[i])

\* ---------------------------------------------------------------- records
Records == UNION {Range(data[i].entries) : i \in 1..Len(data)}

\* the value is absent: no such column, no such cell, or empty
Absent(e, k) == k \notin DOMAIN e \/ e[k] = PyNone \/ e[k] = <<>>

\* C9: a loaded record with a title and authors and none of the three URLs is
\* rendered as one row with an empty badge cell and an unlinked title.
C9_OptionalUrls ==
    pc = "loaded"
        => \A e \in Records :
               ( /\ ~Absent(e, "title")
                 /\ ~Absent(e, "authors")
                 /\ Absent(e, "code")
                 /\ Absent(e, "arxiv page")
                 /\ Absent(e, "project page") )
                   => /\ EntryError(e) = ""
                      /\ TableRow(e) =
                             <<"| ">> \o Fmt(e["title"]) \o <<" | ">> \o Fmt(e["authors"])
                                 \o <<" | ", " | ">> \o Fmt(Get(e, "summary", <<>>))
                                 \o <<" |", "\n">>

\* the text a code badge puts between .../github/stars/ and ?style=social
StarsPath(badge) == SubSeq(badge, 2, Find(badge, <<"?style=social)](">>) - 1)

HostParts == {"https://", "http://", "github.com"}

\* owner/repo alone: no host part, no slash at either end, no doubled slash
OwnerRepoOnly(path) ==
    /\ path # <<>>
    /\ Range(path) \cap HostParts = {}
    /\ path[1] # "/"
    /\ path[Len(path)] # "/"
    /\ \A i \in 1..(Len(path) - 1) : ~(path[i] = "/" /\ path[i + 1] = "/")

\* C8: the code badge of a URL that holds github.com shows the star count of
\* owner/repo alone and links to the URL; that of any other URL is empty.
C8_CodeBadge ==
    pc = "loaded"
        => \A e \in Records :
               ("code" \in DOMAIN e /\ e["code"] # PyNone)
                   => LET badge == generate_code_badge(e["code"])
                      IN  IF Contains(e["code"], <<"github.com">>)
                          THEN /\ badge # <<>>
                               /\ OwnerRepoOnly(StarsPath(badge))
                          ELSE badge = <<>>

\* --------------------------------------------------------------- the flags
CsvGiven == args.csv # PyNone
EntriesGiven == args.entries # <<>>

\* C7 as stated: with neither flag the run fails; with both, the CSV is the
\* one source used.
C7_CsvWins ==
    pc # "start"
        => /\ (~CsvGiven /\ ~EntriesGiven) => (pc = "aborted" /\ err = "ValueError")
           /\ (CsvGiven /\ EntriesGiven) => source = "csv"

\* C7, amended: with neither flag, or with only an empty --csv value, the run
\* fails with ValueError; with both flags one source is used: the CSV when
\* its path is not empty, the entries when it is.
C7_OneSource ==
    pc # "start"
        => /\ ((~CsvGiven \/ args.csv = <<>>) /\ ~EntriesGiven)
                  => (pc = "aborted" /\ err = "ValueError" /\ source = "")
           /\ (CsvGiven /\ EntriesGiven)
                  => /\ source = (IF args.csv = <<>> THEN "entries" ELSE "csv")
                     /\ source = "csv" => SkipDiags(out) = <<>>
                     /\ (source = "csv" /\ pc = "loaded")
                            => Keys(data) \subseteq
                                   {DictRow(csvFile.header, r)["topic"] : r \in Range(csvFile.rows)}
                     /\ source = "entries" => ~(\E d \in Range(out) : d.msg = "Detected column names")

\* C7's case: both flags, the --csv value empty: the entries were loaded.
C7_Witness ==
    /\ args.csv = <<>>
    /\ EntriesGiven
    /\ source = "entries"
    /\ pc = "loaded"

\* C7's case with both flags and a CSV path.
C7_WitnessBoth ==
    /\ Truthy(args.csv)
    /\ EntriesGiven
    /\ pc = "loaded"

\* ---------------------------------------------------------- the write step
\* the exceptions of a run with no input source, a CSV without a `topic`
\* column, a failure while loading or rendering, or an unreadable README
AbortsBeforeWrite == {"ValueError", "TypeError", "KeyError", "FileNotFoundError"}

\* C10: a run opens the README for writing at most once, and only as its
\* last step; a run that aborts for want of an input source, for a CSV
\* without a `topic` column, while loading or rendering, or because the
\* README cannot be read leaves the README as it was when the run started.
C10_AbortLeavesReadme ==
    /\ writes <= 1
    /\ readme # readme0 => writes = 1
    /\ writes = 1 => (pc = "done" \/ (pc = "aborted" /\ err = "UnicodeEncodeError"))
    /\ (pc = "aborted" /\ err \in AbortsBeforeWrite) => (writes = 0 /\ readme = readme0)

\* An abort outside C10's list: text that cannot be encoded makes the write
\* itself fail, after the file was emptied.
WriteFailureTruncates ==
    (pc = "aborted" /\ err = "UnicodeEncodeError") => (readme.text = <<>> /\ readme.exists)

WriteFailure_Witness ==
    /\ pc = "aborted"
    /\ err = "UnicodeEncodeError"
    /\ readme0.text # <<>>

\* C10's case: a run that aborted while rendering, the README being there.
C10_Witness ==
    /\ pc = "aborted"
    /\ err = "KeyError"
    /\ readme.exists
    /\ readme.text # <<>>

====
